---- MODULE Spec2Model ----
(***************************************************************************)
(* Model of scripts/generate-site-index.py: the builder of                 *)
(* site/static/site-index.json.                                            *)
(*                                                                         *)
(* A Python str is modelled as a sequence of one-character strings, so     *)
(* that startswith, index, split, strip, replace and the regular           *)
(* expressions are computed character by character as Python computes      *)
(* them.  Indices passed to and returned by find/slice are Python's        *)
(* 0-based indices.                                                        *)
(***************************************************************************)
EXTENDS Integers, Sequences, FiniteSets, TLC

VARIABLES
    CONFIG,     \* site/config.toml: Missing, or ConfigFile(its lines)
    CONTENT,    \* site/content: function from relative path (parts) to file text
    OUT,        \* site/static/site-index.json: NoFile, or OutFile(the dumped entries)
    OUT_dir,    \* whether the directory site/static exists
    pc,         \* position of main(): "start","enum","loop","done","aborted"
    base_url,   \* local of main()
    entries,    \* local of main()
    todo,       \* the part of sorted(CONTENT.rglob("*.md")) not yet iterated
    srcs,       \* for each element of entries, the relative path it was built from
    run,        \* number of the current invocation of main()
    OUT_start,  \* OUT and OUT_dir as they were when the current run started
    OUT_prev,   \* OUT as the previous run left it
    fm_path,    \* argument of a direct call of parse_front_matter: the file name
    fm_text,    \* ... and the text of that file
    fm_result,  \* its return value (title, description), Raised, or NotCalled
    url_rel,    \* arguments of a direct call of path_to_url
    url_base,
    url_result  \* its return value, or NotCalled

vars == <<CONFIG, CONTENT, OUT, OUT_dir, pc, base_url, entries, todo, srcs, run,
          OUT_start, OUT_prev, fm_path, fm_text, fm_result, url_rel, url_base, url_result>>

mainVars == <<CONFIG, CONTENT, OUT, OUT_dir, pc, base_url, entries, todo, srcs, run,
              OUT_start, OUT_prev>>
fmVars   == <<fm_path, fm_text, fm_result>>
urlVars  == <<url_rel, url_base, url_result>>

\* A file that may not exist
Missing     == [exists |-> FALSE, lines |-> <<>>]   \* site/config.toml is absent
ConfigFile(lines) == [exists |-> TRUE, lines |-> lines]
NoFile      == [exists |-> FALSE, data |-> <<>>]    \* site-index.json is absent
OutFile(data) == [exists |-> TRUE, data |-> data]

\* Values that are not a str (a str has one character per element)
Undecodable == <<"Undecodable">>   \* file bytes that are not valid UTF-8
Raised      == <<"Raised">>        \* the call ended in an exception
NotCalled   == <<"NotCalled">>
None        == <<"None">>          \* re.match / re.search found nothing

----------------------------------------------------------------------------
(* Python str primitives *)

Min(S) == CHOOSE x \in S : \A y \in S : x <= y
Max(S) == CHOOSE x \in S : \A y \in S : x >= y

\* the characters used, in code point order
CodePoints ==
    << "\t", "\n", "\r", " ", "\"", "#", "'", "+", "-", ".", "/", ":", "=",
       "A","B","C","D","E","F","G","H","I","J","K","L","M",
       "N","O","P","Q","R","S","T","U","V","W","X","Y","Z",
       "[", "\\", "]", "_",
       "a","b","c","d","e","f","g","h","i","j","k","l","m",
       "n","o","p","q","r","s","t","u","v","w","x","y","z" >>

Ord(c) == CHOOSE i \in 1..Len(CodePoints) : CodePoints[i] = c

Lowers == <<"a","b","c","d","e","f","g","h","i","j","k","l","m","n","o","p","q","r","s","t","u","v","w","x","y","z">>
Uppers == <<"A","B","C","D","E","F","G","H","I","J","K","L","M","N","O","P","Q","R","S","T","U","V","W","X","Y","Z">>
Range(s) == {s[i] : i \in 1..Len(s)}
upper(c) == IF c \in Range(Lowers) THEN Uppers[CHOOSE i \in 1..Len(Lowers) : Lowers[i] = c] ELSE c
lower(c) == IF c \in Range(Uppers) THEN Lowers[CHOOSE i \in 1..Len(Uppers) : Uppers[i] = c] ELSE c
cased(c) == c \in Range(Lowers) \cup Range(Uppers)

Whitespace == {" ", "\t", "\n", "\r"}
Quotes     == {"\"", "'"}

\* s[a:b]
slice(s, a, b) == SubSeq(s, a + 1, IF b < Len(s) THEN b ELSE Len(s))

\* s < t on str: first differing code point, else the shorter one
StrLess(s, t) ==
    LET n == IF Len(s) < Len(t) THEN Len(s) ELSE Len(t)
        d == {k \in 1..n : s[k] # t[k]}
    IN  IF d = {} THEN Len(s) < Len(t)
        ELSE Ord(s[Min(d)]) < Ord(t[Min(d)])

\* s.startswith(p), s.endswith(p)
startswith(s, p) == Len(p) <= Len(s) /\ SubSeq(s, 1, Len(p)) = p
endswith(s, p)   == Len(p) <= Len(s) /\ SubSeq(s, Len(s) - Len(p) + 1, Len(s)) = p

\* s.find(sub, start): lowest index >= start where sub occurs, else -1
find(s, sub, start) ==
    LET hits == {i \in start..(Len(s) - Len(sub)) : slice(s, i, i + Len(sub)) = sub}
    IN  IF hits = {} THEN -1 ELSE Min(hits)

\* s.replace(old, new): every non-overlapping occurrence, left to right
RECURSIVE replace(_, _, _)
replace(s, old, new) ==
    LET i == find(s, old, 0)
    IN  IF i = -1 THEN s
        ELSE slice(s, 0, i) \o new \o replace(slice(s, i + Len(old), Len(s)), old, new)

\* s.split(sep)
RECURSIVE split(_, _)
split(s, sep) ==
    LET i == find(s, sep, 0)
    IN  IF i = -1 THEN <<s>>
        ELSE <<slice(s, 0, i)>> \o split(slice(s, i + Len(sep), Len(s)), sep)

\* sep.join(parts)
RECURSIVE join(_, _)
join(sep, parts) ==
    IF parts = <<>> THEN <<>>
    ELSE IF Len(parts) = 1 THEN parts[1]
    ELSE parts[1] \o sep \o join(sep, Tail(parts))

\* s.strip()
strip(s) ==
    LET keep == {i \in 1..Len(s) : s[i] \notin Whitespace}
    IN  IF keep = {} THEN <<>> ELSE SubSeq(s, Min(keep), Max(keep))

\* s.rstrip("/")
rstrip_slash(s) ==
    LET keep == {i \in 1..Len(s) : s[i] # "/"}
    IN  IF keep = {} THEN <<>> ELSE SubSeq(s, 1, Max(keep))

\* s.title(): a cased character is upper-cased after an uncased one (or at
\* the start) and lower-cased after a cased one
title_case(s) ==
    [i \in 1..Len(s) |->
        IF ~cased(s[i]) THEN s[i]
        ELSE IF i > 1 /\ cased(s[i-1]) THEN lower(s[i]) ELSE upper(s[i])]

\* The regular expression  KEY\s*=\s*["']([^"']+)["']  tried at 0-based
\* position i of line: group 1, or None.
MatchAt(line, key, i) ==
    LET n    == Len(line)
        \* first 1-based position >= from whose character is not in cls (n+1 if none)
        skip(from, cls) ==
            LET rest == {k \in from..n : line[k] \notin cls}
            IN  IF rest = {} THEN n + 1 ELSE Min(rest)
        eq   == skip(i + Len(key) + 1, Whitespace)
        q1   == skip(eq + 1, Whitespace)
        q2   == skip(q1 + 1, {line[k] : k \in 1..n} \ Quotes)
    IN  IF /\ i + Len(key) <= n
           /\ slice(line, i, i + Len(key)) = key
           /\ eq <= n /\ line[eq] = "="
           /\ q1 <= n /\ line[q1] \in Quotes
           /\ q2 <= n /\ q2 > q1 + 1
        THEN SubSeq(line, q1 + 1, q2 - 1)
        ELSE None

\* re.match(pattern, line): the pattern at position 0 only
re_match(key, line) == MatchAt(line, key, 0)

\* re.search(pattern, line): the leftmost position where the pattern matches
re_search(key, line) ==
    LET hits == {i \in 0..Len(line) : MatchAt(line, key, i) # None}
    IN  IF hits = {} THEN None ELSE MatchAt(line, key, Min(hits))

----------------------------------------------------------------------------
(* path_to_url *)

S_index_md == <<"_","i","n","d","e","x",".","m","d">>
S_md       == <<".","m","d">>
S_slash    == <<"/">>
S_bslash   == <<"\\">>

path_to_url(rel_path, base) ==
    LET parts == split(replace(rel_path, S_bslash, S_slash), S_slash)
        last  == parts[Len(parts)]
        init  == SubSeq(parts, 1, Len(parts) - 1)
    IN  IF last = S_index_md
        THEN base \o S_slash \o join(S_slash, init) \o S_slash
        ELSE LET stem == replace(last, S_md, <<>>)
             IN  base \o S_slash \o join(S_slash, Append(init, stem)) \o S_slash

----------------------------------------------------------------------------
(* parse_front_matter *)

S_delim       == <<"+","+","+">>
S_newline     == <<"\n">>
S_title       == <<"t","i","t","l","e">>
S_description == <<"d","e","s","c","r","i","p","t","i","o","n">>
S_hyphen      == <<"-">>
S_underscore  == <<"_">>
S_space       == <<" ">>

\* Path.stem of a file name: the name without its last suffix
path_stem(name) ==
    LET dots == {i \in 0..(Len(name) - 1) : name[i + 1] = "."}
        i    == IF dots = {} THEN -1 ELSE Max(dots)
    IN  IF 0 < i /\ i < Len(name) - 1 THEN slice(name, 0, i) ELSE name

\* variant: a keyed line without a quoted value clears the field
fm_line_reset(line, td) ==
    LET mt == re_search(S_title, line)
        md == re_search(S_description, line)
        t1 == IF startswith(strip(line), S_title)
              THEN (IF mt # None THEN mt ELSE <<>>) ELSE td[1]
        d1 == IF startswith(strip(line), S_description)
              THEN (IF md # None THEN md ELSE <<>>) ELSE td[2]
    IN  <<t1, d1>>

\* one iteration of the loop over the lines of the block; td = <<title, description>>
fm_line(line, td) ==
    LET mt == re_search(S_title, line)
        md == re_search(S_description, line)
        t1 == IF startswith(strip(line), S_title) /\ mt # None THEN mt ELSE td[1]
        d1 == IF startswith(strip(line), S_description) /\ md # None THEN md ELSE td[2]
    IN  <<t1, d1>>

RECURSIVE fm_loop(_, _)
fm_loop(lines, td) ==
    IF lines = <<>> THEN td ELSE fm_loop(Tail(lines), fm_line(Head(lines), td))

\* name is path.name, text the bytes of the file decoded (or Undecodable)
parse_front_matter(name, text) ==
    IF text = Undecodable THEN Raised          \* read_text: UnicodeDecodeError
    ELSE
    LET title == title_case(replace(replace(path_stem(name), S_hyphen, S_space),
                                    S_underscore, S_space))
        end   == find(text, S_delim, 3)
    IN  IF ~startswith(text, S_delim) THEN <<title, <<>> >>
        ELSE IF end = -1 THEN Raised           \* text.index: ValueError
        ELSE fm_loop(split(slice(text, 3, end), S_newline), <<title, <<>> >>)

----------------------------------------------------------------------------
(* Inputs *)

MaxDepth == 2     \* directories above a file given to path_to_url
MaxLines == 3     \* lines inside a front-matter block

SeqsUpTo(S, n) == UNION {[1..k -> S] : k \in 0..n}

S_base_x       == <<"h","t","t","p","s",":","/","/","x",".","t","e","s","t">>
S_base_default == <<"h","t","t","p","s",":","/","/","p","a","r","a","l","l","a","x","-","l","a","b","s",".","g","i","t","h","u","b",".","i","o","/","c","o","n","t","e","x","t","-","h","a","r","n","e","s","s">>

DirNames  == { <<"d","o","c","s">>, <<"_","d","r","a","f","t","s">> }
FileNames == { <<"_","i","n","d","e","x",".","m","d">>, <<"g","u","i","d","e",".","m","d">>, <<"a",".","m","d",".","m","d">>, <<"n","o","t","e","s",".","m","d","x",".","m","d">>, <<".","m","d">>,
               <<"m","y","-","p","a","g","e","_","n","a","m","e",".","m","d">>, <<"a","-","b",".","m","d">>, <<"a","\\","b",".","m","d">> }
BaseUrls  == { S_base_x, S_base_default }

FmLines ==
    { <<"t","i","t","l","e"," ","="," ","\"","H","e","l","l","o","\"">>, <<"t","i","t","l","e"," ","="," ","'","B","y","e","'">>, <<" "," ","t","i","t","l","e","=","\"","H","i","\"">>, <<"t","i","t","l","e"," ","="," ","x">>,
      <<"d","e","s","c","r","i","p","t","i","o","n"," ","="," ","\"","W","o","r","l","d","\"">>, <<"d","e","s","c","r","i","p","t","i","o","n"," ","="," ","[","x","]">>, <<"s","u","b","t","i","t","l","e"," ","="," ","\"","S","\"">> }
S_late == <<"t","i","t","l","e"," ","="," ","\"","L","a","t","e","\"","\n","d","e","s","c","r","i","p","t","i","o","n"," ","="," ","\"","L","a","t","e","r","\"","\n">>
S_body == <<"b","o","d","y","\n">>
FmNames == { <<"m","y","-","p","a","g","e","_","n","a","m","e",".","m","d">>, <<".","m","d">> }

\* a file text: optional opening delimiter, the lines, optional closing
\* delimiter, optional key lines after it, the body
FileText(open, lines, closed, late) ==
    (IF open THEN S_delim \o S_newline ELSE <<>>)
    \o join(S_newline, lines) \o S_newline
    \o (IF closed THEN S_delim \o S_newline ELSE <<>>)
    \o (IF late THEN S_late ELSE <<>>)
    \o S_body

MainIdle ==
    /\ CONFIG = Missing /\ CONTENT = <<>> /\ OUT = NoFile /\ OUT_dir = FALSE
    /\ pc = "idle" /\ base_url = <<>> /\ entries = <<>> /\ todo = <<>> /\ srcs = <<>>
    /\ run = 0 /\ OUT_start = <<NoFile, FALSE>> /\ OUT_prev = NoFile
FmIdle  == fm_path = <<>> /\ fm_text = <<>> /\ fm_result = NotCalled
UrlIdle == url_rel = <<>> /\ url_base = <<>> /\ url_result = NotCalled

----------------------------------------------------------------------------
(* path_to_url applied to one relative path *)

InitUrl ==
    /\ MainIdle /\ FmIdle
    /\ \E dirs \in SeqsUpTo(DirNames, MaxDepth), name \in FileNames :
           url_rel = join(S_slash, Append(dirs, name))
    /\ url_base \in BaseUrls
    /\ url_result = NotCalled

CallPathToUrl ==
    /\ url_result = NotCalled /\ url_rel # <<>>
    /\ url_result' = path_to_url(url_rel, url_base)
    /\ UNCHANGED <<url_rel, url_base, mainVars, fmVars>>

NextUrl == CallPathToUrl
SpecUrl == InitUrl /\ [][NextUrl]_vars

(* parse_front_matter applied to one file *)

InitFm ==
    /\ MainIdle /\ UrlIdle
    /\ fm_path \in FmNames
    /\ \E open \in BOOLEAN, closed \in BOOLEAN, late \in BOOLEAN,
          lines \in SeqsUpTo(FmLines, MaxLines) :
           fm_text = FileText(open, lines, closed, late)
    /\ fm_result = NotCalled

CallParseFrontMatter ==
    /\ fm_result = NotCalled /\ fm_path # <<>>
    /\ fm_result' = parse_front_matter(fm_path, fm_text)
    /\ UNCHANGED <<fm_path, fm_text, mainVars, urlVars>>

NextFm == CallParseFrontMatter
SpecFm == InitFm /\ [][NextFm]_vars

----------------------------------------------------------------------------
(* get_base_url *)

S_base_url == <<"b","a","s","e","_","u","r","l">>

\* variant: no fallback, a configuration without the key raises
get_base_url_strict(config) ==
    IF config = Missing THEN Raised
    ELSE
    LET lines == config.lines
        hits  == {k \in 1..Len(lines) : re_match(S_base_url, lines[k]) # None}
    IN  IF hits = {} THEN Raised
        ELSE rstrip_slash(re_match(S_base_url, lines[Min(hits)]))

\* config is Missing or the lines of site/config.toml
get_base_url(config) ==
    IF config = Missing THEN Raised            \* open(CONFIG): FileNotFoundError
    ELSE
    LET lines == config.lines
        hits  == {k \in 1..Len(lines) : re_match(S_base_url, lines[k]) # None}
    IN  IF hits = {} THEN S_base_default
        ELSE rstrip_slash(re_match(S_base_url, lines[Min(hits)]))

----------------------------------------------------------------------------
(* main *)

S_home_title == <<"C","o","n","t","e","x","t"," ","H","a","r","n","e","s","s">>
S_home_desc  == <<"L","o","c","a","l","-","f","i","r","s","t"," ","c","o","n","t","e","x","t"," ","e","n","g","i","n","e"," ","f","o","r"," ","A","I"," ","t","o","o","l","s">>
S_demo_title == <<"D","e","m","o">>
S_demo_path  == <<"/","d","e","m","o","/">>
S_demo_desc  == <<"S","e","a","r","c","h"," ","a"," ","p","r","e","-","b","u","i","l","t"," ","k","n","o","w","l","e","d","g","e"," ","b","a","s","e"," ","i","n"," ","y","o","u","r"," ","b","r","o","w","s","e","r">>

\* variant: the two static entries in the other order
StaticEntries_swapped(base) ==
    << [title |-> S_demo_title, url |-> base \o S_demo_path, description |-> S_demo_desc],
       [title |-> S_home_title, url |-> base \o S_slash, description |-> S_home_desc] >>

StaticEntries(base) ==
    << [title |-> S_home_title, url |-> base \o S_slash, description |-> S_home_desc],
       [title |-> S_demo_title, url |-> base \o S_demo_path, description |-> S_demo_desc] >>

\* CONTENT.rglob("*.md"), as paths relative to CONTENT
rglob_md(content) == {p \in DOMAIN content : endswith(p[Len(p)], S_md)}

\* variant: the paths are compared as whole strings, sorted(str(p) for p in ...)
path_lt_str(p, q) == StrLess(join(S_slash, p), join(S_slash, q))

\* Path.__lt__: the parts are compared as lists of str
path_lt(p, q) ==
    LET n == IF Len(p) < Len(q) THEN Len(p) ELSE Len(q)
        d == {k \in 1..n : p[k] # q[k]}
    IN  IF d = {} THEN Len(p) < Len(q)
        ELSE StrLess(p[Min(d)], q[Min(d)])

RECURSIVE sorted(_)
sorted(S) ==
    IF S = {} THEN <<>>
    ELSE LET m == CHOOSE x \in S : \A y \in S \ {x} : path_lt(x, y)
         IN  <<m>> \o sorted(S \ {m})

\* variant: the file name is tested instead of the first component
skipped_name(rel) == startswith(rel[Len(rel)], S_underscore)

\* rel.parts[0].startswith("_")
skipped(rel) == startswith(rel[1], S_underscore)

\* variant: the output file is opened before the configuration is read
Resolve_open_first ==
    /\ pc = "start"
    /\ OUT_dir' = TRUE
    /\ OUT' = OutFile(<<>>)
    /\ LET b == get_base_url(CONFIG)
       IN  IF b = Raised
           THEN /\ pc' = "aborted"
                /\ UNCHANGED <<base_url, entries, srcs>>
           ELSE /\ pc' = "enum"
                /\ base_url' = b
                /\ entries' = StaticEntries(b)
                /\ srcs' = << <<>>, <<>> >>
    /\ UNCHANGED <<CONFIG, CONTENT, todo, run, OUT_start, OUT_prev, fmVars, urlVars>>

\* base_url = get_base_url() and the two static entries
Resolve ==
    /\ pc = "start"
    /\ LET b == get_base_url(CONFIG)
       IN  IF b = Raised
           THEN /\ pc' = "aborted"
                /\ UNCHANGED <<base_url, entries, srcs>>
           ELSE /\ pc' = "enum"
                /\ base_url' = b
                /\ entries' = StaticEntries(b)
                /\ srcs' = << <<>>, <<>> >>
    /\ UNCHANGED <<CONFIG, CONTENT, OUT, OUT_dir, todo, run, OUT_start, OUT_prev, fmVars, urlVars>>

\* sorted(CONTENT.rglob("*.md")), evaluated once when the loop is entered
Enumerate ==
    /\ pc = "enum"
    /\ todo' = sorted(rglob_md(CONTENT))
    /\ pc' = "loop"
    /\ UNCHANGED <<CONFIG, CONTENT, OUT, OUT_dir, base_url, entries, srcs, run,
                   OUT_start, OUT_prev, fmVars, urlVars>>

\* one iteration of the loop
Visit ==
    /\ pc = "loop" /\ todo # <<>>
    /\ LET rel == Head(todo)
           td  == parse_front_matter(rel[Len(rel)], CONTENT[rel])
       IN  IF skipped(rel)
           THEN /\ todo' = Tail(todo)
                /\ UNCHANGED <<pc, entries, srcs>>
           ELSE IF td = Raised
           THEN /\ pc' = "aborted"
                /\ UNCHANGED <<todo, entries, srcs>>
           ELSE /\ entries' = Append(entries,
                                [title |-> td[1],
                                 url |-> path_to_url(join(S_slash, rel), base_url),
                                 description |-> td[2]])
                /\ srcs' = Append(srcs, rel)
                /\ todo' = Tail(todo)
                /\ UNCHANGED pc
    /\ UNCHANGED <<CONFIG, CONTENT, OUT, OUT_dir, base_url, run, OUT_start, OUT_prev,
                   fmVars, urlVars>>

\* variant: open(OUT, "a"), the entries are added to what the file holds
Write_append ==
    /\ pc = "loop" /\ todo = <<>>
    /\ OUT_dir' = TRUE
    /\ OUT' = OutFile(OUT.data \o entries)
    /\ pc' = "done"
    /\ UNCHANGED <<CONFIG, CONTENT, base_url, entries, todo, srcs, run, OUT_start, OUT_prev,
                   fmVars, urlVars>>

\* mkdir(parents=True, exist_ok=True), open(OUT, "w"), json.dump
Write ==
    /\ pc = "loop" /\ todo = <<>>
    /\ OUT_dir' = TRUE
    /\ OUT' = OutFile(entries)
    /\ pc' = "done"
    /\ UNCHANGED <<CONFIG, CONTENT, base_url, entries, todo, srcs, run, OUT_start, OUT_prev,
                   fmVars, urlVars>>

MaxRuns == 2      \* invocations of main() in a behaviour

\* the script is run again on the same files
Rerun ==
    /\ pc \in {"done", "aborted"} /\ run < MaxRuns
    /\ run' = run + 1
    /\ pc' = "start"
    /\ base_url' = <<>> /\ entries' = <<>> /\ todo' = <<>> /\ srcs' = <<>>
    /\ OUT_start' = <<OUT, OUT_dir>>
    /\ OUT_prev' = OUT
    /\ UNCHANGED <<CONFIG, CONTENT, OUT, OUT_dir, fmVars, urlVars>>

MaxFiles == 2     \* files under site/content

Configs ==
    { Missing,
      ConfigFile(<< <<"#"," ","s","i","t","e","\n">>, <<"t","i","t","l","e"," ","="," ","\"","C","o","n","t","e","x","t"," ","H","a","r","n","e","s","s","\"","\n">> >>),
      ConfigFile(<< <<"#"," ","s","i","t","e","\n">>, <<"b","a","s","e","_","u","r","l"," ","="," ","\"","h","t","t","p","s",":","/","/","x",".","t","e","s","t","/","\"","\n">>,
                    <<"b","a","s","e","_","u","r","l"," ","="," ","'","h","t","t","p","s",":","/","/","y",".","t","e","s","t","'","\n">> >>) }

ContentPaths ==
    { << <<"a",".","m","d">> >>, << <<"a","-","b",".","m","d">> >>, << <<"a">>, <<"b",".","m","d">> >>, << <<"_","i","n","d","e","x",".","m","d">> >>,
      << <<"d","o","c","s">>, <<"_","i","n","d","e","x",".","m","d">> >>, << <<"_","d","r","a","f","t","s">>, <<"s","e","c","r","e","t",".","m","d">> >>, << <<"n","o","t","e","s",".","t","x","t">> >> }

T_plain    == <<"#"," ","P","a","g","e","\n","b","o","d","y","\n">>
T_good     == <<"+","+","+","\n","t","i","t","l","e"," ","="," ","\"","H","e","l","l","o","\"","\n","d","e","s","c","r","i","p","t","i","o","n"," ","="," ","\"","W","o","r","l","d","\"","\n","+","+","+","\n","b","o","d","y","\n">>
T_unclosed == <<"+","+","+","\n","t","i","t","l","e"," ","="," ","\"","H","e","l","l","o","\"","\n","b","o","d","y","\n">>
ContentTexts == { T_plain, T_good, T_unclosed, Undecodable }

Trees ==
    UNION { [P -> ContentTexts] : P \in {Q \in SUBSET ContentPaths : Cardinality(Q) <= MaxFiles} }

StaleOut == OutFile(<< [title |-> <<"O","l","d">>, url |-> <<"h","t","t","p","s",":","/","/","o","l","d",".","t","e","s","t","/">>, description |-> <<>>] >>)

Init ==
    /\ FmIdle /\ UrlIdle
    /\ CONFIG \in Configs
    /\ CONTENT \in Trees
    /\ \E o \in { <<NoFile, FALSE>>, <<NoFile, TRUE>>, <<StaleOut, TRUE>> } :
           OUT = o[1] /\ OUT_dir = o[2]
    /\ pc = "start" /\ run = 1
    /\ base_url = <<>> /\ entries = <<>> /\ todo = <<>> /\ srcs = <<>>
    /\ OUT_start = <<OUT, OUT_dir>>
    /\ OUT_prev = OUT

Next == Resolve \/ Enumerate \/ Visit \/ Write \/ Rerun
Spec == Init /\ [][Next]_vars

----------------------------------------------------------------------------
(* Properties *)

\* the lines of the front-matter block of a text that has both delimiters
BlockLines(text) == split(slice(text, 3, find(text, S_delim, 3)), S_newline)
HasBlock(text)   == startswith(text, S_delim) /\ find(text, S_delim, 3) # -1
\* the lines among lines that set key: trimmed content starts with key and a
\* quoted value is assigned to it
SettingLines(lines, key) ==
    {k \in 1..Len(lines) :
        /\ startswith(strip(lines[k]), key)
        /\ re_search(key, lines[k]) # None}
DefaultTitle(name) ==
    title_case(replace(replace(path_stem(name), S_hyphen, S_space), S_underscore, S_space))

\* C1: parse_front_matter never fails: every call returns a (title,
\* description) pair, and for a text that opens with +++ but has no closing
\* +++ it returns the defaults (title from the file name, empty description).
C1_NeverFails ==
    fm_result # NotCalled =>
        /\ fm_result # Raised
        /\ (startswith(fm_text, S_delim) /\ ~HasBlock(fm_text))
               => fm_result = <<DefaultTitle(fm_path), <<>> >>

\* get_base_url() has raised in the current run
ResolveAborted == pc = "aborted" /\ entries = <<>>
NoBaseUrlLine(config) == \A k \in 1..Len(config.lines) : re_match(S_base_url, config.lines[k]) = None

\* C2 (as claimed): get_base_url never raises: when the configuration file is
\* missing, or has no base_url line, the default URL is returned and the run
\* goes on.
C2_NeverRaises ==
    (pc # "start" /\ (CONFIG = Missing \/ NoBaseUrlLine(CONFIG)))
        => ~ResolveAborted /\ base_url = S_base_default

\* C2 (amended): when the configuration file exists and has no base_url line
\* the default URL is returned and the run goes on; when the file is missing
\* get_base_url raises, the run aborts there and the output is not touched.
C2_DefaultOnlyWhenFileExists ==
    /\ (pc # "start" /\ CONFIG # Missing /\ NoBaseUrlLine(CONFIG))
           => ~ResolveAborted /\ base_url = S_base_default
    /\ (pc # "start" /\ CONFIG = Missing)
           => ResolveAborted /\ <<OUT, OUT_dir>> = OUT_start

C2_Witness ==
    /\ pc = "done" /\ CONFIG # Missing /\ NoBaseUrlLine(CONFIG)
    /\ base_url = S_base_default
    /\ OUT.data[1].url = S_base_default \o S_slash

\* the content files that main() turns into entries
Included == {p \in DOMAIN CONTENT : endswith(p[Len(p)], S_md) /\ p[1][1] # "_"}
\* p's entry precedes q's entry
Precedes(p, q) == \E i, j \in 3..Len(srcs) : i < j /\ srcs[i] = p /\ srcs[j] = q

\* comparison of two paths component by component
RECURSIVE PartsLess(_, _)
PartsLess(p, q) ==
    IF p = <<>> THEN q # <<>>
    ELSE IF q = <<>> THEN FALSE
    ELSE IF Head(p) = Head(q) THEN PartsLess(Tail(p), Tail(q))
    ELSE StrLess(Head(p), Head(q))

\* C3 (as claimed): the content entries are in the order of the full path
\* strings of their files: if str(p) < str(q) then p's entry precedes q's.
C3_FullPathStringOrder ==
    pc = "done" =>
        \A p, q \in Included :
            StrLess(join(S_slash, p), join(S_slash, q)) => Precedes(p, q)

\* C3 (amended): the content entries are in the order of their files' paths
\* compared component by component (each component as a string, a path that
\* is a prefix of another first): a/b.md comes before a-b.md.
C3_ComponentOrder ==
    pc = "done" =>
        \A p, q \in Included : PartsLess(p, q) => Precedes(p, q)

C3_Witness ==
    /\ pc = "done"
    /\ Len(srcs) = 4
    /\ srcs[3] = << <<"a">>, <<"b",".","m","d">> >>
    /\ srcs[4] = << <<"a","-","b",".","m","d">> >>
    /\ OUT.data[3].url = base_url \o <<"/","a","/","b","/">>
    /\ OUT.data[4].url = base_url \o <<"/","a","-","b","/">>

\* C4: for a final component other than _index.md, path_to_url removes only
\* the trailing .md of the final component and returns
\* base_url + "/" + (the other components and that stem, joined by "/") + "/".
C4_StripsOnlyTrailingMd ==
    url_result # NotCalled =>
        LET parts == split(replace(url_rel, S_bslash, S_slash), S_slash)
            last  == parts[Len(parts)]
            stem  == slice(last, 0, Len(last) - Len(S_md))
        IN  last # S_index_md =>
                url_result = url_base \o S_slash
                             \o join(S_slash, Append(SubSeq(parts, 1, Len(parts) - 1), stem))
                             \o S_slash

\* C5: for every path other than a bare top-level _index.md, the URL ends
\* with exactly one "/": it ends with "/" and not with "//".
C5_OneTrailingSlash ==
    (url_result # NotCalled /\ url_rel # S_index_md) =>
        /\ endswith(url_result, S_slash)
        /\ ~endswith(url_result, S_slash \o S_slash)

\* C6: in the output of a run, a discovered .md file has an entry if and only
\* if the first character of the first component of its relative path is not
\* "_", and then it has exactly one.
C6_EntryIffFirstPartNotUnderscore ==
    pc = "done" =>
        /\ \A p \in rglob_md(CONTENT) :
               Cardinality({i \in 3..Len(srcs) : srcs[i] = p})
                   = IF p[1][1] = "_" THEN 0 ELSE 1
        /\ Len(OUT.data) = Len(srcs)
        /\ Len(OUT.data) = Cardinality(Included) + 2
        /\ \A i \in 3..Len(srcs) :
               OUT.data[i].url = path_to_url(join(S_slash, srcs[i]), base_url)

C6_Witness ==
    /\ pc = "done"
    /\ DOMAIN CONTENT = { << <<"d","o","c","s">>, <<"_","i","n","d","e","x",".","m","d">> >>, << <<"_","d","r","a","f","t","s">>, <<"s","e","c","r","e","t",".","m","d">> >> }
    /\ CONTENT[<< <<"_","d","r","a","f","t","s">>, <<"s","e","c","r","e","t",".","m","d">> >>] = T_good
    /\ Len(OUT.data) = 3
    /\ OUT.data[3].url = base_url \o <<"/","d","o","c","s","/">>

\* C7: in the output of every successful run the first two entries are the
\* "Context Harness" record with url base_url + "/" and the "Demo" record
\* with url base_url + "/demo/", in that order, before every content entry.
C7_StaticEntriesFirst ==
    pc = "done" =>
        /\ Len(OUT.data) >= 2
        /\ OUT.data[1] = [title |-> <<"C","o","n","t","e","x","t"," ","H","a","r","n","e","s","s">>,
                          url |-> base_url \o <<"/">>,
                          description |-> <<"L","o","c","a","l","-","f","i","r","s","t"," ","c","o","n","t","e","x","t"," ","e","n","g","i","n","e"," ","f","o","r"," ","A","I"," ","t","o","o","l","s">>]
        /\ OUT.data[2] = [title |-> <<"D","e","m","o">>,
                          url |-> base_url \o <<"/","d","e","m","o","/">>,
                          description |-> <<"S","e","a","r","c","h"," ","a"," ","p","r","e","-","b","u","i","l","t"," ","k","n","o","w","l","e","d","g","e"," ","b","a","s","e"," ","i","n"," ","y","o","u","r"," ","b","r","o","w","s","e","r">>]
        /\ \A i \in 1..2 : srcs[i] = <<>>
        /\ \A i \in 3..Len(srcs) : srcs[i] # <<>>

C7_Witness ==
    /\ pc = "done"
    /\ base_url = S_base_x
    /\ Len(OUT.data) = 4
    /\ OUT.data[2].url = <<"h","t","t","p","s",":","/","/","x",".","t","e","s","t","/","d","e","m","o","/">>

\* C8: with a front-matter block, the title (the description) returned is the
\* value of the last line of the block that sets it, or the default when no
\* line does; a later line with the key but no quoted value changes nothing,
\* and so does everything after the closing +++.
C8_LastMatchWins ==
    (fm_result # NotCalled /\ HasBlock(fm_text)) =>
        LET lines == BlockLines(fm_text)
            ts    == SettingLines(lines, S_title)
            ds    == SettingLines(lines, S_description)
            close == find(fm_text, S_delim, 3) + Len(S_delim)
        IN  /\ fm_result[1] = IF ts = {} THEN DefaultTitle(fm_path)
                              ELSE re_search(S_title, lines[Max(ts)])
            /\ fm_result[2] = IF ds = {} THEN <<>>
                              ELSE re_search(S_description, lines[Max(ds)])
            /\ fm_result = parse_front_matter(fm_path, slice(fm_text, 0, close))

C8_Witness ==
    /\ fm_result # NotCalled
    /\ fm_text = FileText(TRUE, << <<"t","i","t","l","e"," ","="," ","\"","H","e","l","l","o","\"">>, <<"t","i","t","l","e"," ","="," ","'","B","y","e","'">>, <<"t","i","t","l","e"," ","="," ","x">> >>,
                          TRUE, TRUE)
    /\ fm_result = << <<"B","y","e">>, <<>> >>

\* C9: a second run of main() on unchanged files leaves the output file as
\* the first run left it; the file a completed run leaves holds the entries
\* of that run and nothing of what it held before.
C9_Idempotent ==
    /\ (run >= 2 /\ pc \in {"done", "aborted"}) => OUT = OUT_prev
    /\ pc = "done" =>
           /\ OUT.data = entries
           /\ \A i \in 1..Len(OUT.data) : \A j \in 1..Len(StaleOut.data) :
                  OUT.data[i] # StaleOut.data[j]

C9_Witness ==
    /\ run = 2 /\ pc = "done"
    /\ Len(OUT.data) > 2
    /\ OUT = OUT_prev

\* C10: the output file and its directory are touched only by the final
\* write: until a run is done, and so in every aborted run, they are as they
\* were when the run started.
C10_NoWriteBeforeAllParsed ==
    pc # "done" => <<OUT, OUT_dir>> = OUT_start

C10_Witness ==
    /\ pc = "aborted"
    /\ Len(entries) > 2
    /\ todo # <<>>
    /\ OUT_start = <<NoFile, FALSE>>
    /\ OUT = NoFile /\ OUT_dir = FALSE

====
